---- MODULE Spec2Model ----
(***************************************************************************)
(* Shape-level model of model_builder.py (VGG19, ResNet18, MobileNetV3,    *)
(* SqueezeNet, MnasNet and their blocks) and of the train.py script.       *)
(* A tensor is represented by its shape; a module by the record of the     *)
(* layers its constructor declares; forward by shape propagation.          *)
(***************************************************************************)
EXTENDS Integers, Sequences, FiniteSets, TLC

VARIABLES
    model,      \* the object the last constructor call returned (or None)
    made,       \* the constructor call that made (or failed to make) model
    call,       \* the last call made on model_builder: what and with which arguments
    result,     \* outcome of the last call: tensor shape or exception, with the op log
    pc,         \* train.py: position of the script
    args,       \* train.py: parsed command line
    class_names,\* train.py: number of class names returned by create_dataloaders
    model_name, \* train.py: model_name variable
    trained,    \* train.py: trained variable
    exc,        \* train.py: exception that ended the script ("none" while running)
    done        \* train.py: set of external steps already carried out

vars == <<model, made, call, result, pc, args, class_names, model_name, trained, exc, done>>

builderVars == <<model, made, call, result>>
trainVars == <<pc, args, class_names, model_name, trained, exc, done>>

----------------------------------------------------------------------------
(* Bounds of the explored inputs *)

MaxClasses == 2
MaxBatch == 2
MaxSmallHW == 4
MaxOff == 1

\* pooled sizes whose pre-images under five 2x2 poolings are offered as inputs
PooledSizes == {1, 2, 7, 49}

HWValues == (1..MaxSmallHW) \cup {32 * m + j : m \in PooledSizes, j \in 0..MaxOff}

----------------------------------------------------------------------------
(* Tensors and outcomes *)

None == [op |-> "None"]

\* a live tensor of the given shape with the log of the ops applied so far
Tensor(shape, log) ==
    [ok |-> TRUE, shape |-> shape, exc |-> "none", at |-> "none", log |-> log]

\* an exception raised by op: no tensor is returned
Raise(e, op, log) ==
    [ok |-> FALSE, shape |-> <<>>, exc |-> e, at |-> op, log |-> log]

NoResult == [ok |-> FALSE, shape |-> <<>>, exc |-> "none", at |-> "none", log |-> <<>>]

Entry(op, want, got) == [op |-> op, want |-> want, got |-> got]

RECURSIVE Prod(_)
Prod(s) == IF s = <<>> THEN 1 ELSE Head(s) * Prod(Tail(s))

Max(a, b) == IF a >= b THEN a ELSE b

----------------------------------------------------------------------------
(* Layer declarations (what the constructors store) *)

Conv2d(cin, cout, k, s, p, g) ==
    [op |-> "Conv2d", cin |-> cin, cout |-> cout, k |-> k, s |-> s, p |-> p, groups |-> g]

BatchNorm2d(c) == [op |-> "BatchNorm2d", c |-> c]

Act(kind) == [op |-> "Act", kind |-> kind]

Dropout == [op |-> "Dropout"]

MaxPool2d(k, s, p, ceil_mode) ==
    [op |-> "MaxPool2d", k |-> k, s |-> s, p |-> p, ceil_mode |-> ceil_mode]

AdaptiveAvgPool2d == [op |-> "AdaptiveAvgPool2d"]

Linear(fin, fout) == [op |-> "Linear", fin |-> fin, fout |-> fout]

Sequential(layers) == [op |-> "Sequential", layers |-> layers]

----------------------------------------------------------------------------
(* Shape propagation of the primitive ops *)

\* floor((size + 2*pad - kernel) / stride) + 1
ConvOut(size, k, s, p) == ((size + 2 * p - k) \div s) + 1

Conv2d_forward(m, t) ==
    LET n == t.shape[1]
        c == t.shape[2]
        h == t.shape[3]
        w == t.shape[4]
        log == Append(t.log, Entry("Conv2d", m.cin, c))
    IN  IF Len(t.shape) # 4 THEN Raise("RuntimeError", "Conv2d", t.log)
        ELSE IF c # m.cin THEN Raise("RuntimeError", "Conv2d", log)
        ELSE IF h + 2 * m.p < m.k \/ w + 2 * m.p < m.k
             THEN Raise("RuntimeError", "Conv2d", log)
        ELSE Tensor(<<n, m.cout, ConvOut(h, m.k, m.s, m.p), ConvOut(w, m.k, m.s, m.p)>>, log)

\* in training mode batch statistics need more than one value per channel
BatchNorm2d_forward(m, t, training) ==
    LET n == t.shape[1]
        c == t.shape[2]
        h == t.shape[3]
        w == t.shape[4]
        log == Append(t.log, Entry("BatchNorm2d", m.c, c))
    IN  IF Len(t.shape) # 4 THEN Raise("ValueError", "BatchNorm2d", t.log)
        ELSE IF training /\ n * h * w = 1 THEN Raise("ValueError", "BatchNorm2d", log)
        ELSE IF c # m.c THEN Raise("RuntimeError", "BatchNorm2d", log)
        ELSE Tensor(t.shape, log)

\* floor of a / b for b > 0, also for negative a
FloorDiv(a, b) == IF a >= 0 THEN a \div b ELSE -((b - 1 - a) \div b)

PoolOut(size, k, s, p, ceil_mode) ==
    LET num == size + 2 * p - k
        o == FloorDiv(num + (IF ceil_mode THEN s - 1 ELSE 0), s) + 1
    IN  IF ceil_mode /\ (o - 1) * s >= size + p THEN o - 1 ELSE o

MaxPool2d_forward(m, t) ==
    LET n == t.shape[1]
        c == t.shape[2]
        h == t.shape[3]
        w == t.shape[4]
        oh == PoolOut(h, m.k, m.s, m.p, m.ceil_mode)
        ow == PoolOut(w, m.k, m.s, m.p, m.ceil_mode)
    IN  IF Len(t.shape) # 4 THEN Raise("RuntimeError", "MaxPool2d", t.log)
        ELSE IF oh < 1 \/ ow < 1 THEN Raise("RuntimeError", "MaxPool2d", t.log)
        ELSE Tensor(<<n, c, oh, ow>>, t.log)

AdaptiveAvgPool2d_forward(m, t) ==
    IF Len(t.shape) # 4 THEN Raise("RuntimeError", "AdaptiveAvgPool2d", t.log)
    ELSE Tensor(<<t.shape[1], t.shape[2], 1, 1>>, t.log)

Linear_forward(m, t) ==
    LET last == t.shape[Len(t.shape)]
        log == Append(t.log, Entry("Linear", m.fin, last))
    IN  IF last # m.fin THEN Raise("RuntimeError", "Linear", log)
        ELSE Tensor([t.shape EXCEPT ![Len(t.shape)] = m.fout], log)

\* out.reshape(out.size(0), -1) / x.view(x.size(0), -1) / torch.flatten(x, 1)
Flatten(t) ==
    IF ~t.ok THEN t
    ELSE Tensor(<<t.shape[1], Prod(Tail(t.shape))>>, t.log)

\* x.view(-1, x.shape[1])
ViewCols(t) ==
    IF ~t.ok THEN t
    ELSE Tensor(<<Prod(t.shape) \div t.shape[2], t.shape[2]>>, t.log)

Broadcastable(a, b) ==
    /\ Len(a) = Len(b)
    /\ \A i \in 1..Len(a) : a[i] = b[i] \/ a[i] = 1 \/ b[i] = 1

BroadcastShape(a, b) == [i \in 1..Len(a) |-> Max(a[i], b[i])]

\* a + b
Add(a, b) ==
    LET log == Append(b.log, Entry("add", a.shape, b.shape))
    IN  IF ~a.ok THEN a
        ELSE IF ~b.ok THEN b
        ELSE IF ~Broadcastable(a.shape, b.shape) THEN Raise("RuntimeError", "add", log)
        ELSE Tensor(BroadcastShape(a.shape, b.shape), log)

\* a += b  (the result must keep a's shape)
IAdd(a, b) ==
    LET log == Append(b.log, Entry("add", a.shape, b.shape))
    IN  IF ~a.ok THEN a
        ELSE IF ~b.ok THEN b
        ELSE IF ~Broadcastable(a.shape, b.shape) \/ BroadcastShape(a.shape, b.shape) # a.shape
             THEN Raise("RuntimeError", "add", log)
        ELSE Tensor(a.shape, log)

\* torch.cat([a, b], 1)
Cat(a, b) ==
    LET log == Append(b.log, Entry("cat", a.shape, b.shape))
    IN  IF ~a.ok THEN a
        ELSE IF ~b.ok THEN b
        ELSE IF a.shape[1] # b.shape[1] \/ a.shape[3] # b.shape[3] \/ a.shape[4] # b.shape[4]
             THEN Raise("RuntimeError", "cat", log)
        ELSE Tensor(<<a.shape[1], a.shape[2] + b.shape[2], a.shape[3], a.shape[4]>>, log)

----------------------------------------------------------------------------
(* Names bound at module level in model_builder.py: the imports and the    *)
(* classes.  A name used in a function body and not bound here raises      *)
(* NameError when the body reaches it; an attribute of the module that is  *)
(* not bound here raises AttributeError.                                   *)

ModuleGlobals ==
    {"torch", "nn", "F",
     "VGG19", "Block", "ResNet18",
     "Hswish", "Hsigmoid", "SqueezeExcitation", "InvertedResidualBlock",
     "MobileNetV3_Stem", "Bottlenecks", "Classifier", "MobileNetV3",
     "Fire", "SqueezeNet", "InvertedResidual", "MnasNet"}

\* outcome of a constructor call
Built(obj) == [ok |-> TRUE, obj |-> obj, exc |-> "none", at |-> "none"]
CtorRaise(e, at) == [ok |-> FALSE, obj |-> None, exc |-> e, at |-> at]

----------------------------------------------------------------------------
(* Block constructors *)

ConvBNReLU(cin, cout, k, s, p) ==
    Sequential(<<Conv2d(cin, cout, k, s, p, 1), BatchNorm2d(cout), Act("ReLU")>>)

Block(in_channels, out_channels, identity_downsample, stride) ==
    [op |-> "Block",
     conv1 |-> Conv2d(in_channels, out_channels, 3, stride, 1, 1),
     bn1 |-> BatchNorm2d(out_channels),
     conv2 |-> Conv2d(out_channels, out_channels, 3, 1, 1, 1),
     bn2 |-> BatchNorm2d(out_channels),
     relu |-> Act("ReLU"),
     identity_downsample |-> identity_downsample]

\* the block declaring its expand stage whatever the expansion factor
InvertedResidualBlock_always_expand(in_channels, out_channels, stride, expansion_factor) ==
    LET hidden_dim == in_channels * expansion_factor
    IN  [op |-> "InvertedResidualBlock",
         use_residual |-> (stride = 1 /\ in_channels = out_channels),
         block |-> Sequential(
                    <<Conv2d(in_channels, hidden_dim, 1, 1, 0, 1),
                      BatchNorm2d(hidden_dim), Act("Hswish"),
                      Conv2d(hidden_dim, hidden_dim, 3, stride, 1, hidden_dim),
                      BatchNorm2d(hidden_dim), Act("Hswish"),
                      Conv2d(hidden_dim, out_channels, 1, 1, 0, 1),
                      BatchNorm2d(out_channels)>>)]

InvertedResidualBlock(in_channels, out_channels, stride, expansion_factor) ==
    LET hidden_dim == in_channels * expansion_factor
        expand == IF expansion_factor # 1
                  THEN <<Conv2d(in_channels, hidden_dim, 1, 1, 0, 1),
                         BatchNorm2d(hidden_dim), Act("Hswish")>>
                  ELSE <<>>
    IN  [op |-> "InvertedResidualBlock",
         use_residual |-> (stride = 1 /\ in_channels = out_channels),
         block |-> Sequential(expand \o
                    <<Conv2d(hidden_dim, hidden_dim, 3, stride, 1, hidden_dim),
                      BatchNorm2d(hidden_dim), Act("Hswish"),
                      Conv2d(hidden_dim, out_channels, 1, 1, 0, 1),
                      BatchNorm2d(out_channels)>>)]

MobileNetV3_Stem(in_channels, out_channels) ==
    [op |-> "MobileNetV3_Stem",
     stem |-> Sequential(<<Conv2d(in_channels, out_channels, 3, 2, 1, 1),
                           BatchNorm2d(out_channels), Act("Hswish")>>)]

Classifier(in_channels, num_classes) ==
    [op |-> "Classifier",
     avgpool |-> AdaptiveAvgPool2d,
     conv1 |-> Conv2d(in_channels, 1280, 1, 1, 0, 1),
     hswish1 |-> Act("Hswish"),
     dropout |-> Dropout,
     conv2 |-> Conv2d(1280, num_classes, 1, 1, 0, 1)]

\* the module declaring its 3x3 expand convolution without padding
Fire_nopad(inplanes, squeeze_planes, expand1x1_planes, expand3x3_planes) ==
    [op |-> "Fire",
     inplanes |-> inplanes,
     squeeze |-> Conv2d(inplanes, squeeze_planes, 1, 1, 0, 1),
     squeeze_activation |-> Act("ReLU"),
     expand1x1 |-> Conv2d(squeeze_planes, expand1x1_planes, 1, 1, 0, 1),
     expand1x1_activation |-> Act("ReLU"),
     expand3x3 |-> Conv2d(squeeze_planes, expand3x3_planes, 3, 1, 0, 1),
     expand3x3_activation |-> Act("ReLU")]

Fire(inplanes, squeeze_planes, expand1x1_planes, expand3x3_planes) ==
    [op |-> "Fire",
     inplanes |-> inplanes,
     squeeze |-> Conv2d(inplanes, squeeze_planes, 1, 1, 0, 1),
     squeeze_activation |-> Act("ReLU"),
     expand1x1 |-> Conv2d(squeeze_planes, expand1x1_planes, 1, 1, 0, 1),
     expand1x1_activation |-> Act("ReLU"),
     expand3x3 |-> Conv2d(squeeze_planes, expand3x3_planes, 3, 1, 1, 1),
     expand3x3_activation |-> Act("ReLU")]

\* the block deciding on the residual add from the stride alone
InvertedResidual_stride_only(in_channels, out_channels, kernel_size, stride, expansion_factor) ==
    LET hidden_dim == in_channels * expansion_factor
    IN  [op |-> "InvertedResidual",
         stride |-> stride,
         use_residual |-> (stride = 1),
         expand |-> Sequential(<<Conv2d(in_channels, hidden_dim, 1, 1, 0, 1),
                                 BatchNorm2d(hidden_dim), Act("ReLU6")>>),
         depthwise |-> Sequential(<<Conv2d(hidden_dim, hidden_dim, kernel_size, stride,
                                           kernel_size \div 2, hidden_dim),
                                    BatchNorm2d(hidden_dim), Act("ReLU6")>>),
         project |-> Sequential(<<Conv2d(hidden_dim, out_channels, 1, 1, 0, 1),
                                  BatchNorm2d(out_channels)>>)]

InvertedResidual(in_channels, out_channels, kernel_size, stride, expansion_factor) ==
    LET hidden_dim == in_channels * expansion_factor
    IN  [op |-> "InvertedResidual",
         stride |-> stride,
         use_residual |-> (in_channels = out_channels /\ stride = 1),
         expand |-> Sequential(<<Conv2d(in_channels, hidden_dim, 1, 1, 0, 1),
                                 BatchNorm2d(hidden_dim), Act("ReLU6")>>),
         depthwise |-> Sequential(<<Conv2d(hidden_dim, hidden_dim, kernel_size, stride,
                                           kernel_size \div 2, hidden_dim),
                                    BatchNorm2d(hidden_dim), Act("ReLU6")>>),
         project |-> Sequential(<<Conv2d(hidden_dim, out_channels, 1, 1, 0, 1),
                                  BatchNorm2d(out_channels)>>)]

----------------------------------------------------------------------------
(* forward of every module class *)

RECURSIVE forward(_, _, _)
RECURSIVE Sequential_forward(_, _, _)
RECURSIVE Run(_, _, _, _)

Sequential_forward(layers, t, training) ==
    IF layers = <<>> \/ ~t.ok THEN t
    ELSE Sequential_forward(Tail(layers), forward(Head(layers), t, training), training)

\* the statements of a forward method, in order: each names the attribute applied
Run(m, names, t, training) ==
    IF names = <<>> \/ ~t.ok THEN t
    ELSE LET nm == Head(names)
             r == IF nm = "reshape" THEN Flatten(t)
                  ELSE IF nm = "view" THEN ViewCols(t)
                  ELSE forward(m[nm], t, training)
         IN  Run(m, Tail(names), IF r.ok THEN r ELSE [r EXCEPT !.at = nm], training)

Block_forward(m, x, training) ==
    LET main == Run(m, <<"conv1", "bn1", "relu", "conv2", "bn2">>, x, training)
        identity == IF m.identity_downsample.op # "None"
                    THEN forward(m.identity_downsample, Tensor(x.shape, main.log), training)
                    ELSE Tensor(x.shape, main.log)
    IN  IF ~main.ok THEN main
        ELSE forward(m.relu, IAdd(main, identity), training)

InvertedResidualBlock_forward(m, x, training) ==
    IF m.use_residual
    THEN Add(x, forward(m.block, x, training))
    ELSE forward(m.block, x, training)

Fire_forward(m, x, training) ==
    LET sq == Run(m, <<"squeeze", "squeeze_activation">>, x, training)
        e1 == Run(m, <<"expand1x1", "expand1x1_activation">>, sq, training)
        e3 == Run(m, <<"expand3x3", "expand3x3_activation">>, Tensor(sq.shape, e1.log), training)
    IN  IF ~sq.ok THEN sq
        ELSE IF ~e1.ok THEN e1
        ELSE Cat(e1, e3)

InvertedResidual_forward(m, x, training) ==
    IF m.use_residual
    THEN Add(x, Run(m, <<"expand", "depthwise", "project">>, x, training))
    ELSE Run(m, <<"expand", "depthwise", "project">>, x, training)

VGG19_order ==
    <<"conv_1_1", "conv_1_2", "pool",
      "conv_2_1", "conv_2_2", "pool",
      "conv_3_1", "conv_3_2", "conv_3_3", "conv_3_4", "pool",
      "conv_4_1", "conv_4_2", "conv_4_3", "conv_4_4", "pool",
      "conv_5_1", "conv_5_2", "conv_5_3", "conv_5_4", "pool",
      "reshape", "fc", "fc1", "fc2">>

\* forward without the adaptive average pooling
ResNet18_order_nopool ==
    <<"conv1", "bn1", "relu", "maxpool",
      "layer1", "layer2", "layer3", "layer4",
      "reshape", "fc">>

ResNet18_order ==
    <<"conv1", "bn1", "relu", "maxpool",
      "layer1", "layer2", "layer3", "layer4",
      "avgpool", "reshape", "fc">>

Classifier_order == <<"avgpool", "conv1", "hswish1", "dropout", "conv2", "reshape">>

MobileNetV3_order == <<"stem", "bottlenecks", "classifier">>

SqueezeNet_order == <<"features", "classifier", "reshape">>

MnasNet_order == <<"stem", "layers", "head", "avgpool", "view", "classifier">>

forward(m, t, training) ==
    IF ~t.ok THEN t
    ELSE CASE m.op = "Conv2d" -> Conv2d_forward(m, t)
           [] m.op = "BatchNorm2d" -> BatchNorm2d_forward(m, t, training)
           [] m.op = "Act" -> t
           [] m.op = "Dropout" -> t
           [] m.op = "MaxPool2d" -> MaxPool2d_forward(m, t)
           [] m.op = "AdaptiveAvgPool2d" -> AdaptiveAvgPool2d_forward(m, t)
           [] m.op = "Linear" -> Linear_forward(m, t)
           [] m.op = "Sequential" -> Sequential_forward(m.layers, t, training)
           [] m.op = "Block" -> Block_forward(m, t, training)
           [] m.op = "InvertedResidualBlock" -> InvertedResidualBlock_forward(m, t, training)
           [] m.op = "MobileNetV3_Stem" -> Run(m, <<"stem">>, t, training)
           [] m.op = "Classifier" -> Run(m, Classifier_order, t, training)
           [] m.op = "Fire" -> Fire_forward(m, t, training)
           [] m.op = "InvertedResidual" -> InvertedResidual_forward(m, t, training)
           [] m.op = "VGG19" -> Run(m, VGG19_order, t, training)
           [] m.op = "ResNet18" -> Run(m, ResNet18_order, t, training)
           [] m.op = "MobileNetV3" -> Run(m, MobileNetV3_order, t, training)
           [] m.op = "SqueezeNet" -> Run(m, SqueezeNet_order, t, training)
           [] m.op = "MnasNet" -> Run(m, MnasNet_order, t, training)

----------------------------------------------------------------------------
(* Architecture constructors *)

\* the first fully-connected stage declared for a 6x6 map
VGG19_fc_6x6 == Sequential(<<Dropout, Linear(6 * 6 * 512, 4096), Act("ReLU")>>)

\* the first fully-connected stage
VGG19_fc == Sequential(<<Dropout, Linear(7 * 7 * 512, 4096), Act("ReLU")>>)

VGG19(num_classes, kernel_size, padding, stride) ==
    Built(
    [op |-> "VGG19",
     conv_1_1 |-> ConvBNReLU(3, 64, kernel_size, stride, padding),
     conv_1_2 |-> ConvBNReLU(64, 64, kernel_size, stride, padding),
     conv_2_1 |-> ConvBNReLU(64, 128, kernel_size, stride, padding),
     conv_2_2 |-> ConvBNReLU(128, 128, kernel_size, stride, padding),
     conv_3_1 |-> ConvBNReLU(128, 256, kernel_size, stride, padding),
     conv_3_2 |-> ConvBNReLU(256, 256, kernel_size, stride, padding),
     conv_3_3 |-> ConvBNReLU(256, 256, kernel_size, stride, padding),
     conv_3_4 |-> ConvBNReLU(256, 256, kernel_size, stride, padding),
     conv_4_1 |-> ConvBNReLU(256, 512, kernel_size, stride, padding),
     conv_4_2 |-> ConvBNReLU(512, 512, kernel_size, stride, padding),
     conv_4_3 |-> ConvBNReLU(512, 512, kernel_size, stride, padding),
     conv_4_4 |-> ConvBNReLU(512, 512, kernel_size, stride, padding),
     conv_5_1 |-> ConvBNReLU(512, 512, kernel_size, stride, padding),
     conv_5_2 |-> ConvBNReLU(512, 512, kernel_size, stride, padding),
     conv_5_3 |-> ConvBNReLU(512, 512, kernel_size, stride, padding),
     conv_5_4 |-> ConvBNReLU(512, 512, kernel_size, stride, padding),
     fc |-> VGG19_fc,
     fc1 |-> Sequential(<<Dropout, Linear(4096, 4096), Act("ReLU")>>),
     fc2 |-> Sequential(<<Linear(4096, num_classes)>>),
     pool |-> MaxPool2d(2, 2, 0, FALSE)])

\* the downsample convolution declared without its padding
ResNet18_identity_downsample_nopad(in_channels, out_channels) ==
    Sequential(<<Conv2d(in_channels, out_channels, 3, 2, 0, 1), BatchNorm2d(out_channels)>>)

ResNet18_identity_downsample(in_channels, out_channels) ==
    Sequential(<<Conv2d(in_channels, out_channels, 3, 2, 1, 1), BatchNorm2d(out_channels)>>)

\* the layer builder declaring the downsample path whatever the stride
ResNet18_make_layer_always(in_channels, out_channels, stride) ==
    Sequential(<<Block(in_channels, out_channels,
                       ResNet18_identity_downsample(in_channels, out_channels), stride),
                 Block(out_channels, out_channels, None, 1)>>)

ResNet18_make_layer(in_channels, out_channels, stride) ==
    LET identity_downsample ==
            IF stride # 1
            THEN ResNet18_identity_downsample(in_channels, out_channels)
            ELSE None
    IN  Sequential(<<Block(in_channels, out_channels, identity_downsample, stride),
                     Block(out_channels, out_channels, None, 1)>>)

ResNet18(num_classes) ==
    Built(
    [op |-> "ResNet18",
     conv1 |-> Conv2d(3, 64, 7, 2, 3, 1),
     bn1 |-> BatchNorm2d(64),
     relu |-> Act("ReLU"),
     maxpool |-> MaxPool2d(3, 2, 1, FALSE),
     layer1 |-> ResNet18_make_layer(64, 64, 1),
     layer2 |-> ResNet18_make_layer(64, 128, 2),
     layer3 |-> ResNet18_make_layer(128, 256, 2),
     layer4 |-> ResNet18_make_layer(256, 512, 2),
     avgpool |-> AdaptiveAvgPool2d,
     fc |-> Linear(512, num_classes)])

\* the schedule with its first block declared at stride 1
MobileNetV3_first_stride1(num_classes) ==
    Built(
    [op |-> "MobileNetV3",
     stem |-> MobileNetV3_Stem(3, 16),
     bottlenecks |-> Sequential(<<
         InvertedResidualBlock(16, 16, 1, 1),
         InvertedResidualBlock(16, 24, 2, 2),
         InvertedResidualBlock(24, 40, 2, 2),
         InvertedResidualBlock(40, 80, 2, 1),
         InvertedResidualBlock(80, 160, 2, 2),
         InvertedResidualBlock(160, 320, 2, 1),
         InvertedResidualBlock(320, 640, 2, 1),
         InvertedResidualBlock(640, 1280, 2, 1)>>),
     classifier |-> Classifier(1280, num_classes)])

MobileNetV3(num_classes) ==
    Built(
    [op |-> "MobileNetV3",
     stem |-> MobileNetV3_Stem(3, 16),
     bottlenecks |-> Sequential(<<
         InvertedResidualBlock(16, 16, 2, 1),
         InvertedResidualBlock(16, 24, 2, 2),
         InvertedResidualBlock(24, 40, 2, 2),
         InvertedResidualBlock(40, 80, 2, 1),
         InvertedResidualBlock(80, 160, 2, 2),
         InvertedResidualBlock(160, 320, 2, 1),
         InvertedResidualBlock(320, 640, 2, 1),
         InvertedResidualBlock(640, 1280, 2, 1)>>),
     classifier |-> Classifier(1280, num_classes)])

\* the two feature schedules of SqueezeNet.__init__
SqueezeNet_features(version) ==
    CASE version = "1_0" -> Sequential(<<
         Conv2d(3, 96, 7, 2, 0, 1),
         Act("ReLU"),
         MaxPool2d(3, 2, 0, TRUE),
         Fire(96, 16, 64, 64),
         Fire(128, 16, 64, 64),
         Fire(128, 32, 128, 128),
         MaxPool2d(3, 2, 0, TRUE),
         Fire(256, 32, 128, 128),
         Fire(256, 48, 192, 192),
         Fire(384, 48, 192, 192),
         Fire(384, 64, 256, 256),
         MaxPool2d(3, 2, 0, TRUE),
         Fire(512, 64, 256, 256)>>)
      [] version = "1_1" -> Sequential(<<
         Conv2d(3, 64, 3, 2, 0, 1),
         Act("ReLU"),
         MaxPool2d(3, 2, 0, TRUE),
         Fire(64, 16, 64, 64),
         Fire(128, 16, 64, 64),
         MaxPool2d(3, 2, 0, TRUE),
         Fire(128, 32, 128, 128),
         Fire(256, 32, 128, 128),
         MaxPool2d(3, 2, 0, TRUE),
         Fire(256, 48, 192, 192),
         Fire(384, 48, 192, 192),
         Fire(384, 64, 256, 256),
         Fire(512, 64, 256, 256)>>)

\* statements of SqueezeNet.__init__ in order; the first failing one raises
SqueezeNet(version, num_classes) ==
    IF "_log_api_usage_once" \notin ModuleGlobals
    THEN CtorRaise("NameError", "_log_api_usage_once")
    ELSE IF version \notin {"1_0", "1_1"}
    THEN CtorRaise("ValueError", "version")
    ELSE IF "init" \notin ModuleGlobals
    THEN CtorRaise("NameError", "init")
    ELSE Built(
         [op |-> "SqueezeNet",
          num_classes |-> num_classes,
          features |-> SqueezeNet_features(version),
          classifier |-> Sequential(<<Dropout, Conv2d(512, num_classes, 1, 1, 0, 1),
                                      Act("ReLU"), AdaptiveAvgPool2d>>)])

MnasNet(num_classes) ==
    Built(
    [op |-> "MnasNet",
     num_classes |-> num_classes,
     stem |-> Sequential(<<Conv2d(3, 32, 3, 2, 1, 1), BatchNorm2d(32), Act("ReLU6")>>),
     layers |-> Sequential(<<
         InvertedResidual(32, 16, 3, 1, 1),
         InvertedResidual(16, 24, 3, 2, 6),
         InvertedResidual(24, 24, 3, 1, 6),
         InvertedResidual(24, 40, 5, 2, 6),
         InvertedResidual(40, 40, 5, 1, 6),
         InvertedResidual(40, 40, 5, 1, 6),
         InvertedResidual(40, 80, 3, 2, 6),
         InvertedResidual(80, 80, 3, 1, 6),
         InvertedResidual(80, 80, 3, 1, 6),
         InvertedResidual(80, 96, 3, 1, 6),
         InvertedResidual(96, 96, 3, 1, 6),
         InvertedResidual(96, 192, 5, 2, 6),
         InvertedResidual(192, 192, 5, 1, 6),
         InvertedResidual(192, 192, 5, 1, 6),
         InvertedResidual(192, 320, 3, 1, 6)>>),
     head |-> Sequential(<<Conv2d(320, 1280, 1, 1, 0, 1), BatchNorm2d(1280), Act("ReLU6")>>),
     avgpool |-> AdaptiveAvgPool2d,
     classifier |-> Linear(1280, num_classes)])

----------------------------------------------------------------------------
(* Calls on model_builder: constructors and forward *)

\* constructor arguments offered
Classes == 1..MaxClasses
VGGConfigs == {<<3, 1, 1>>, <<1, 0, 1>>, <<3, 1, 2>>, <<5, 2, 1>>}
Versions == {"1_0", "1_1", "2_0"}
BlockChannels == {16, 24}
Strides == {1, 2}
Kernels == {3, 5}
Expansions == {1, 2, 6}

IsFire(l) == l.op = "Fire"

\* the Fire modules the schedule of a version declares, in order
FireSchedule(version) == SelectSeq(SqueezeNet_features(version).layers, IsFire)

\* channel count a module expects of its input
InChannels(m) ==
    CASE m.op = "Block" -> m.conv1.cin
      [] m.op = "InvertedResidualBlock" -> m.block.layers[1].cin
      [] m.op = "InvertedResidual" -> m.expand.layers[1].cin
      [] m.op = "Fire" -> m.inplanes
      [] OTHER -> 3

Returned(c) ==
    IF c.ok THEN Tensor(<<>>, <<>>) ELSE Raise(c.exc, c.at, <<>>)

\* m = Cls(...): the name is bound only when the constructor returns
Construct(fn, a, c) ==
    /\ model.op = "None"
    /\ model' = c.obj
    /\ made' = [fn |-> fn, args |-> a]
    /\ call' = [fn |-> fn, args |-> a]
    /\ result' = Returned(c)
    /\ UNCHANGED trainVars

NewVGG19 ==
    \E K \in Classes, cfg \in VGGConfigs :
        Construct("VGG19", <<K, cfg[1], cfg[2], cfg[3]>>, VGG19(K, cfg[1], cfg[2], cfg[3]))

NewResNet18 ==
    \E K \in Classes : Construct("ResNet18", <<K>>, ResNet18(K))

NewMobileNetV3 ==
    \E K \in Classes : Construct("MobileNetV3", <<K>>, MobileNetV3(K))

NewSqueezeNet ==
    \E v \in Versions, K \in Classes : Construct("SqueezeNet", <<v, K>>, SqueezeNet(v, K))

NewMnasNet ==
    \E K \in Classes : Construct("MnasNet", <<K>>, MnasNet(K))

NewInvertedResidualBlock ==
    \E i \in BlockChannels, o \in BlockChannels, s \in Strides, e \in Expansions :
        Construct("InvertedResidualBlock", <<i, o, s, e>>,
                  Built(InvertedResidualBlock(i, o, s, e)))

NewInvertedResidual ==
    \E i \in BlockChannels, o \in BlockChannels, k \in Kernels, s \in Strides, e \in Expansions :
        Construct("InvertedResidual", <<i, o, k, s, e>>,
                  Built(InvertedResidual(i, o, k, s, e)))

\* Fire(...) with the arguments of the i-th Fire of a schedule
NewFire ==
    \E v \in {"1_0", "1_1"} :
        \E i \in 1..Len(FireSchedule(v)) :
            LET f == FireSchedule(v)[i]
            IN  Construct("Fire",
                          <<f.inplanes, f.squeeze.cout, f.expand1x1.cout, f.expand3x3.cout>>,
                          Built(f))

Inputs(m) ==
    {<<n, c, h, w>> : n \in 1..MaxBatch, c \in {3, InChannels(m)},
                      h \in HWValues, w \in HWValues}

\* forward reads the module and never changes it, so one call on each
\* constructed object reaches every outcome
Fresh == call.fn \notin {"forward", "block"}

\* model(x), in the mode the training collaborator has put the model in
Forward ==
    /\ model.op # "None"
    /\ Fresh
    /\ \E x \in Inputs(model), training \in BOOLEAN :
        /\ call' = [fn |-> "forward", args |-> x, training |-> training]
        /\ result' = forward(model, Tensor(x, <<>>), training)
    /\ UNCHANGED <<model, made>>
    /\ UNCHANGED trainVars

LayerNames == <<"layer1", "layer2", "layer3", "layer4">>

\* model.layerG[b](x): one residual Block of a ResNet18 called on its own
BlockForward ==
    /\ model.op = "ResNet18"
    /\ Fresh
    /\ \E g \in 1..4, b \in 1..2, training \in BOOLEAN :
        LET blk == model[LayerNames[g]].layers[b]
        IN  \E x \in Inputs(blk) :
            /\ call' = [fn |-> "block", args |-> x, training |-> training,
                        group |-> g, index |-> b]
            /\ result' = forward(blk, Tensor(x, <<>>), training)
    /\ UNCHANGED <<model, made>>
    /\ UNCHANGED trainVars

\* del m: the object is dropped
Del ==
    /\ model.op # "None"
    /\ model' = None
    /\ made' = [fn |-> "none", args |-> <<>>]
    /\ call' = [fn |-> "none", args |-> <<>>]
    /\ result' = NoResult
    /\ UNCHANGED trainVars

----------------------------------------------------------------------------
(* train.py: values of the command line *)

\* Python values that the script handles; a str is its sequence of characters
PyNone == [t |-> "NoneType"]
PyBool(b) == [t |-> "bool", v |-> b]
PyInt(n) == [t |-> "int", v |-> n]
PyStr(chars) == [t |-> "str", v |-> chars]

Whitespace == {" ", "\t", "\n", "\r"}
UpperCase == <<"A", "B", "C", "D", "E", "F", "G", "H", "I", "J", "K", "L", "M",
               "N", "O", "P", "Q", "R", "S", "T", "U", "V", "W", "X", "Y", "Z">>
LowerCase == <<"a", "b", "c", "d", "e", "f", "g", "h", "i", "j", "k", "l", "m",
               "n", "o", "p", "q", "r", "s", "t", "u", "v", "w", "x", "y", "z">>
Digits == <<"0", "1", "2", "3", "4", "5", "6", "7", "8", "9">>

RECURSIVE lstrip(_)
lstrip(s) == IF s # <<>> /\ Head(s) \in Whitespace THEN lstrip(Tail(s)) ELSE s

RECURSIVE rstrip(_)
rstrip(s) ==
    IF s # <<>> /\ s[Len(s)] \in Whitespace THEN rstrip(SubSeq(s, 1, Len(s) - 1)) ELSE s

\* str.strip()
strip(s) == rstrip(lstrip(s))

lower_char(c) ==
    IF \E i \in 1..Len(UpperCase) : UpperCase[i] = c
    THEN LowerCase[CHOOSE i \in 1..Len(UpperCase) : UpperCase[i] = c]
    ELSE c

\* str.lower()
lower(s) == [i \in 1..Len(s) |-> lower_char(s[i])]

IsDigit(c) == \E i \in 1..Len(Digits) : Digits[i] = c
DigitVal(c) == (CHOOSE i \in 1..Len(Digits) : Digits[i] = c) - 1

RECURSIVE DigitsVal(_)
DigitsVal(s) == IF s = <<>> THEN 0 ELSE DigitsVal(SubSeq(s, 1, Len(s) - 1)) * 10 + DigitVal(s[Len(s)])

\* int(v): the value or the exception raised
int(v) ==
    CASE v.t = "int" -> [ok |-> TRUE, v |-> v.v, exc |-> "none"]
      [] v.t = "bool" -> [ok |-> TRUE, v |-> IF v.v THEN 1 ELSE 0, exc |-> "none"]
      [] v.t = "NoneType" -> [ok |-> FALSE, v |-> 0, exc |-> "TypeError"]
      [] v.t = "str" ->
            LET d == strip(v.v)
            IN  IF d # <<>> /\ \A i \in 1..Len(d) : IsDigit(d[i])
                THEN [ok |-> TRUE, v |-> DigitsVal(d), exc |-> "none"]
                ELSE [ok |-> FALSE, v |-> 0, exc |-> "ValueError"]

\* v == "literal"
PyEq(v, chars) == v.t = "str" /\ v.v = chars

\* values offered on the command line; an omitted flag takes its default
ModelArgs ==
    {PyNone} \cup {PyStr(m) : m \in {
        <<"v", "g", "g", "1", "9">>,
        <<" ", "V", "G", "G", "1", "9", " ">>,
        <<"r", "e", "s", "n", "e", "t", "1", "8">>,
        <<"R", "e", "s", "N", "e", "t", "1", "8", "\n">>,
        <<"m", "n", "a", "s", "n", "e", "t">>,
        <<"M", "n", "a", "s", "N", "e", "t">>,
        <<"m", "o", "b", "i", "l", "e", "n", "e", "t", "v", "3">>,
        <<"s", "q", "u", "e", "e", "z", "e", "n", "e", "t">>,
        <<"S", "q", "u", "e", "e", "z", "e", "N", "e", "t">>,
        <<"a", "l", "e", "x", "n", "e", "t">>,
        <<"s", "h", "u", "f", "f", "l", "e", "n", "e", "t", "v", "2">>,
        <<"e", "f", "f", "i", "c", "i", "e", "n", "t", "n", "e", "t">>,
        <<"l", "e", "n", "e", "t">>,
        <<"v", "g", "g", " ", "1", "9">>,
        <<>>}}

TrainedArgs ==
    {PyBool(FALSE)} \cup {PyStr(v) : v \in {
        <<"T", "r", "u", "e">>,
        <<"F", "a", "l", "s", "e">>,
        <<"t", "r", "u", "e">>,
        <<"1">>}}

EpochsArgs == {PyNone, PyStr(<<"1">>), PyStr(<<"1", "0">>), PyStr(<<"x">>)}

BatchSizeArgs == {PyInt(8), PyStr(<<" ", "4">>), PyStr(<<"4", ".", "0">>)}

----------------------------------------------------------------------------
(* train.py: the dispatch on the model name *)

\* the if/elif chain: selector, attribute of model_builder that is called,
\* and the value model_name is set to
Dispatch ==
    <<[sel |-> <<"v", "g", "g", "1", "9">>, attr |-> "VGG19", name |-> <<"V", "G", "G", "1", "9">>],
      [sel |-> <<"r", "e", "s", "n", "e", "t", "1", "8">>, attr |-> "ResNet18", name |-> <<"R", "e", "s", "N", "e", "t", "1", "8">>],
      [sel |-> <<"m", "n", "a", "s", "n", "e", "t">>, attr |-> "MnasNet", name |-> <<"M", "n", "a", "s", "N", "e", "t">>],
      [sel |-> <<"m", "o", "b", "i", "l", "e", "n", "e", "t", "v", "3">>, attr |-> "MobileNetV3", name |-> <<"M", "o", "b", "i", "l", "e", "N", "e", "t", "V", "3">>],
      [sel |-> <<"a", "l", "e", "x", "n", "e", "t">>, attr |-> "AlexNet", name |-> <<"A", "l", "e", "x", "N", "e", "t">>],
      [sel |-> <<"s", "h", "u", "f", "f", "l", "e", "n", "e", "t", "v", "2">>, attr |-> "ShuffleNetV2", name |-> <<"S", "h", "u", "f", "f", "l", "e", "N", "e", "t", "v", "2">>],
      [sel |-> <<"s", "q", "u", "e", "e", "z", "e", "n", "e", "t">>, attr |-> "ShuffleNetV2", name |-> <<"S", "q", "u", "e", "e", "z", "e", "N", "e", "t">>],
      [sel |-> <<"e", "f", "f", "i", "c", "i", "e", "n", "t", "n", "e", "t">>, attr |-> "EfficientNet", name |-> <<"E", "f", "f", "i", "c", "i", "e", "n", "t", "N", "e", "t">>]>>

\* model_builder.<attr>(num_classes=K)
CallBuilder(attr, K) ==
    IF attr \notin ModuleGlobals THEN CtorRaise("AttributeError", attr)
    ELSE CASE attr = "VGG19" -> VGG19(K, 3, 1, 1)
           [] attr = "ResNet18" -> ResNet18(K)
           [] attr = "MnasNet" -> MnasNet(K)
           [] attr = "MobileNetV3" -> MobileNetV3(K)

\* index of the first branch of the chain whose selector equals the name, 0 for the else branch
Branch(name) ==
    IF \E i \in 1..Len(Dispatch) : Dispatch[i].sel = name
    THEN CHOOSE i \in 1..Len(Dispatch) :
            /\ Dispatch[i].sel = name
            /\ \A j \in 1..(i - 1) : Dispatch[j].sel # name
    ELSE 0

\* trained = args.TRAINED == "True": anything else taken as False
ParseTrained_lenient(v) ==
    IF PyEq(v, <<"T", "r", "u", "e">>) THEN "True" ELSE "False"

\* trained = True if args.TRAINED == "True" else False if args.TRAINED == "False" else None
ParseTrained(v) ==
    IF PyEq(v, <<"T", "r", "u", "e">>) THEN "True"
    ELSE IF PyEq(v, <<"F", "a", "l", "s", "e">>) THEN "False"
    ELSE "None"

----------------------------------------------------------------------------
(* train.py: the steps of the script *)

NoExc == [type |-> "none", at |-> "none"]

Abort(type, at) ==
    /\ pc' = "aborted"
    /\ exc' = [type |-> type, at |-> at]

\* lines 14-20
ParseArgs ==
    /\ pc = "start"
    /\ \E m \in ModelArgs, t \in TrainedArgs, e \in EpochsArgs, b \in BatchSizeArgs :
        args' = [op |-> "Namespace", MODEL |-> m, TRAINED |-> t, EPOCHS |-> e, BATCH_SIZE |-> b]
    /\ pc' = "hyperparameters"
    /\ UNCHANGED <<model, made, call, result, class_names, model_name, trained, exc, done>>

\* lines 23-24
Hyperparameters ==
    /\ pc = "hyperparameters"
    /\ IF ~int(args.EPOCHS).ok THEN Abort(int(args.EPOCHS).exc, "EPOCHS")
       ELSE IF ~int(args.BATCH_SIZE).ok THEN Abort(int(args.BATCH_SIZE).exc, "BATCH_SIZE")
       ELSE pc' = "create_dataloaders" /\ UNCHANGED exc
    /\ UNCHANGED <<model, made, call, result, args, class_names, model_name, trained, done>>

\* an external collaborator either returns or raises
External(step, next) ==
    \/ /\ pc' = next
       /\ done' = done \cup {step}
       /\ UNCHANGED exc
    \/ /\ Abort("Exception", step)
       /\ done' = done \cup {step}

\* lines 42-47
CreateDataloaders ==
    /\ pc = "create_dataloaders"
    /\ \/ /\ \E n \in Classes : class_names' = n
          /\ pc' = "dispatch"
          /\ UNCHANGED exc
       \/ /\ Abort("Exception", "create_dataloaders")
          /\ UNCHANGED class_names
    /\ UNCHANGED <<model, made, call, result, args, model_name, trained, done>>

\* lines 51-106
SelectModel ==
    /\ pc = "dispatch"
    /\ IF args.MODEL.t # "str"
       THEN /\ Abort("AttributeError", "strip")
            /\ UNCHANGED <<model, made, call, result, model_name>>
       ELSE LET name == lower(strip(args.MODEL.v))
                b == Branch(name)
                c == CallBuilder(Dispatch[b].attr, class_names)
            IN  IF b = 0
                THEN /\ Abort("Exception", "Wrong Model.")
                     /\ model_name' = name
                     /\ UNCHANGED <<model, made, call, result>>
                ELSE /\ made' = [fn |-> Dispatch[b].attr, args |-> <<class_names>>]
                     /\ call' = [fn |-> Dispatch[b].attr, args |-> <<class_names>>]
                     /\ result' = Returned(c)
                     /\ model' = c.obj
                     /\ IF c.ok
                        THEN /\ model_name' = Dispatch[b].name
                             /\ pc' = "validate"
                             /\ UNCHANGED exc
                        ELSE /\ model_name' = name
                             /\ Abort(c.exc, "dispatch")
    /\ UNCHANGED <<args, class_names, trained, done>>

\* lines 110-112
ValidateTrained ==
    /\ pc = "validate"
    /\ trained' = ParseTrained(args.TRAINED)
    /\ IF trained' = "None"
       THEN Abort("Exception", "Wrong Argument --TRAINED")
       ELSE pc' = "load_model" /\ UNCHANGED exc
    /\ UNCHANGED <<model, made, call, result, args, class_names, model_name, done>>

\* lines 115-122
LoadModel ==
    /\ pc = "load_model"
    /\ IF trained = "True"
       THEN \/ /\ model' = [op |-> "Loaded", name |-> model_name]
               /\ pc' = "load_data"
               /\ UNCHANGED exc
            \/ /\ Abort("Exception", "load_model")
               /\ UNCHANGED model
       ELSE /\ pc' = "load_data"
            /\ UNCHANGED <<model, exc>>
    /\ UNCHANGED <<made, call, result, args, class_names, model_name, trained, done>>

\* lines 125-128
LoadData ==
    /\ pc = "load_data"
    /\ IF trained = "True"
       THEN \/ pc' = "train" /\ UNCHANGED exc
            \/ Abort("Exception", "load_data")
       ELSE pc' = "train" /\ UNCHANGED exc
    /\ UNCHANGED <<model, made, call, result, args, class_names, model_name, trained, done>>

\* lines 131-139
Train ==
    /\ pc = "train"
    /\ External("train", "save_model")
    /\ call' = [fn |-> "engine.train", args |-> <<int(args.EPOCHS).v>>, model |-> model]
    /\ UNCHANGED <<model, made, result, args, class_names, model_name, trained>>

\* lines 142-145
SaveModel ==
    /\ pc = "save_model"
    /\ External("save_model", "save_data")
    /\ UNCHANGED <<model, made, call, result, args, class_names, model_name, trained>>

\* lines 148-151
SaveData ==
    /\ pc = "save_data"
    /\ External("save_data", "done")
    /\ UNCHANGED <<model, made, call, result, args, class_names, model_name, trained>>

Init ==
    /\ model = None
    /\ made = [fn |-> "none", args |-> <<>>]
    /\ call = [fn |-> "none", args |-> <<>>]
    /\ result = NoResult
    /\ pc = "start"
    /\ args = None
    /\ class_names = 0
    /\ model_name = <<>>
    /\ trained = "unset"
    /\ exc = NoExc
    /\ done = {}

Next ==
    \/ NewVGG19
    \/ NewResNet18
    \/ NewMobileNetV3
    \/ NewSqueezeNet
    \/ NewMnasNet
    \/ NewInvertedResidualBlock
    \/ NewInvertedResidual
    \/ NewFire
    \/ Forward
    \/ BlockForward
    \/ Del

Spec == Init /\ [][Next]_vars

TrainNext ==
    \/ ParseArgs
    \/ Hyperparameters
    \/ CreateDataloaders
    \/ SelectModel
    \/ ValidateTrained
    \/ LoadModel
    \/ LoadData
    \/ Train
    \/ SaveModel
    \/ SaveData

TrainSpec == Init /\ [][TrainNext]_vars

----------------------------------------------------------------------------
(* Properties *)

FiveArchs == {"VGG19", "ResNet18", "MobileNetV3", "SqueezeNet", "MnasNet"}

\* the constructor call left every argument but num_classes at its default
Defaults ==
    CASE made.fn = "VGG19" -> made.args[2] = 3 /\ made.args[3] = 1 /\ made.args[4] = 1
      [] made.fn = "SqueezeNet" -> made.args[1] = "1_0"
      [] OTHER -> TRUE

\* num_classes of the constructor call
NumClassesArg == IF made.fn = "SqueezeNet" THEN made.args[2] ELSE made.args[1]

Adds(log) == SelectSeq(log, LAMBDA e : e.op = "add")

\* C1: each of the five architectures, built with num_classes = K and defaults,
\* is constructed, and its forward on a (B, 3, 224, 224) input returns a
\* tensor of shape (B, K).
C1_CanonicalForwardShape ==
    /\ (made.fn \in FiveArchs /\ Defaults) => model.op = made.fn
    /\ (/\ call.fn = "forward"
        /\ model.op \in FiveArchs
        /\ Defaults
        /\ call.args[2] = 3 /\ call.args[3] = 224 /\ call.args[4] = 224)
       => (result.ok /\ result.shape = <<call.args[1], NumClassesArg>>)

\* C2: SqueezeNet("1_0") and SqueezeNet("1_1") are constructed and their last
\* feature stage outputs 512 channels; any other version raises ValueError and
\* no object is returned.
C2_SqueezeNetVersions ==
    made.fn = "SqueezeNet" =>
        IF made.args[1] \in {"1_0", "1_1"}
        THEN /\ model.op = "SqueezeNet"
             /\ LET f == model.features.layers[Len(model.features.layers)]
                IN  f.expand1x1.cout + f.expand3x3.cout = 512
        ELSE /\ model.op = "None"
             /\ result.exc = "ValueError"

\* a forward that went through residual Blocks of a ResNet18
OnResNetBlocks ==
    /\ model.op = "ResNet18"
    /\ call.fn \in {"forward", "block"}

\* C3: in every residual Block of ResNet18's four groups, for every input
\* height and width, the conv1-bn1-relu-conv2-bn2 tensor has exactly the shape
\* of the shortcut tensor it is added to; a Block call that returns has made
\* that add.
C3_ResidualAddShapesMatch ==
    OnResNetBlocks =>
        /\ \A i \in 1..Len(result.log) :
              result.log[i].op = "add" => result.log[i].want = result.log[i].got
        /\ (call.fn = "block" /\ result.ok) => Len(Adds(result.log)) = 1

\* a stride-2 first block of a group called on an odd-sized map has added
\* the downsampled shortcut
C3_Witness ==
    /\ model.op = "ResNet18"
    /\ call.fn = "block"
    /\ call.group = 3 /\ call.index = 1
    /\ call.args[3] = 3 /\ call.args[4] = 4
    /\ result.ok
    /\ Len(Adds(result.log)) = 1
    /\ result.shape = <<call.args[1], 256, 2, 2>>

\* C4: the first block of each ResNet18 layer group has a downsample path
\* exactly when the group's stride is not 1 or its channel count changes;
\* the second block never has one.
C4_DownsampleIffNeeded ==
    model.op = "ResNet18" =>
        \A g \in 1..4 :
            LET first == model[LayerNames[g]].layers[1]
                second == model[LayerNames[g]].layers[2]
            IN  /\ (first.identity_downsample.op # "None")
                      <=> (first.conv1.s # 1 \/ first.conv1.cin # first.conv1.cout)
                /\ second.identity_downsample.op = "None"

\* a ResNet18 whose first group keeps the identity shortcut and whose second
\* group (64 -> 128, stride 2) has the downsample path
C4_Witness ==
    /\ model.op = "ResNet18"
    /\ model.layer1.layers[1].identity_downsample.op = "None"
    /\ model.layer1.layers[1].conv1.s = 1
    /\ model.layer2.layers[1].identity_downsample.op = "Sequential"
    /\ model.layer2.layers[1].conv1.cin = 64
    /\ model.layer2.layers[1].conv1.cout = 128

\* a forward on an inverted-residual block built on its own
OnInverted ==
    /\ call.fn = "forward"
    /\ model.op \in {"InvertedResidualBlock", "InvertedResidual"}

\* stride == 1 and in_channels == out_channels in the constructor call
ResidualCase ==
    /\ made.args[1] = made.args[2]
    /\ IF made.fn = "InvertedResidual" THEN made.args[4] = 1 ELSE made.args[3] = 1

\* C5: both inverted-residual blocks add the input to the projected tensor
\* exactly when stride == 1 and in_channels == out_channels, return the
\* projected tensor alone otherwise, and whenever they add, the projected tensor
\* has the input's shape (also for the blocks inside MobileNetV3 and MnasNet).
C5_InvertedResidualAdd ==
    /\ OnInverted =>
        /\ Adds(result.log) # <<>> => ResidualCase
        /\ (result.ok /\ ResidualCase) => Len(Adds(result.log)) = 1
        /\ \A i \in 1..Len(result.log) :
              result.log[i].op = "add" =>
                  /\ result.log[i].want = call.args
                  /\ result.log[i].got = call.args
    /\ (call.fn = "forward" /\ model.op \in {"MobileNetV3", "MnasNet"}) =>
        \A i \in 1..Len(result.log) :
            result.log[i].op = "add" => result.log[i].want = result.log[i].got

\* InvertedResidual(16, 16, 5, 1, 6) called on a 3x4 map has added its input
C5_Witness ==
    /\ OnInverted
    /\ made = [fn |-> "InvertedResidual", args |-> <<16, 16, 5, 1, 6>>]
    /\ call.args = <<2, 16, 3, 4>>
    /\ result.ok
    /\ Len(Adds(result.log)) = 1
    /\ result.shape = <<2, 16, 3, 4>>

\* a forward on a Fire built with the arguments of a schedule, given the
\* channel count it declares
OnFire ==
    /\ call.fn = "forward"
    /\ model.op = "Fire"
    /\ call.args[2] = made.args[1]

\* C6: every Fire of the "1_0" and "1_1" schedules outputs expand1x1_planes +
\* expand3x3_planes channels at the height and width of its input, and the last
\* Fire of each schedule outputs 512 channels.
C6_FireOutputChannels ==
    OnFire =>
        /\ result.ok
        /\ result.shape = <<call.args[1], made.args[3] + made.args[4], call.args[3], call.args[4]>>
        /\ \A v \in {"1_0", "1_1"} :
              LET last == FireSchedule(v)[Len(FireSchedule(v))]
              IN  made.args[1] = last.inplanes => result.shape[2] = 512

\* the last Fire of the schedules, Fire(512, 64, 256, 256), called on a 1x3 map
C6_Witness ==
    /\ OnFire
    /\ made.args = <<512, 64, 256, 256>>
    /\ call.args = <<1, 512, 1, 3>>
    /\ result.ok
    /\ result.shape = <<1, 512, 1, 3>>

\* a forward on a VGG19 built with kernel_size=3, padding=1, stride=1
OnDefaultVGG ==
    /\ call.fn = "forward"
    /\ model.op = "VGG19"
    /\ Defaults

\* height or width of the feature map after the five 2x2 poolings
Pooled(size) == size \div 32

\* C7 as stated: the default VGG19 forward succeeds only if the feature map
\* after the five poolings is exactly 7x7, and for every other input it fails
\* at the first fully-connected stage.
C7_OnlySevenBySeven ==
    OnDefaultVGG =>
        LET ph == Pooled(call.args[3])
            pw == Pooled(call.args[4])
        IN  /\ result.ok => (ph = 7 /\ pw = 7)
            /\ ~(ph = 7 /\ pw = 7) => (~result.ok /\ result.at = "fc")

\* C7 amended: the default VGG19 forward succeeds exactly when the feature map
\* after the five poolings has 49 positions (7x7, 1x49 or 49x1) and then
\* returns (B, num_classes); a non-empty map of another size fails with a shape
\* error at the first fully-connected stage; an input with a side below 32
\* fails before that stage; a failing call returns no tensor.
C7_FortyNinePositions ==
    OnDefaultVGG =>
        LET ph == Pooled(call.args[3])
            pw == Pooled(call.args[4])
        IN  /\ result.ok <=> ph * pw = 49
            /\ result.ok => result.shape = <<call.args[1], NumClassesArg>>
            /\ (ph >= 1 /\ pw >= 1 /\ ph * pw # 49) =>
                  (result.exc = "RuntimeError" /\ result.at = "fc")
            /\ (ph = 0 \/ pw = 0) => (~result.ok /\ result.at # "fc")
            /\ ~result.ok => result.shape = <<>>

\* the default VGG19 has returned logits for a 32x1568 input, whose pooled
\* map is 1x49
C7_Witness ==
    /\ OnDefaultVGG
    /\ call.args[3] = 32 /\ call.args[4] = 1568
    /\ result.ok
    /\ result.shape = <<call.args[1], NumClassesArg>>

\* the attributes of a module that hold its sub-modules, in forward order
SubmoduleNames(m) ==
    CASE m.op = "Block" ->
            IF m.identity_downsample.op # "None"
            THEN <<"conv1", "bn1", "conv2", "bn2", "identity_downsample">>
            ELSE <<"conv1", "bn1", "conv2", "bn2">>
      [] m.op = "InvertedResidualBlock" -> <<"block">>
      [] m.op = "MobileNetV3_Stem" -> <<"stem">>
      [] m.op = "Classifier" -> <<"conv1", "conv2">>
      [] m.op = "Fire" -> <<"squeeze", "expand1x1", "expand3x3">>
      [] m.op = "InvertedResidual" -> <<"expand", "depthwise", "project">>
      [] m.op = "VGG19" -> SelectSeq(VGG19_order, LAMBDA n : n \notin {"pool", "reshape"})
      [] m.op = "ResNet18" -> <<"conv1", "bn1", "layer1", "layer2", "layer3", "layer4", "fc">>
      [] m.op = "MobileNetV3" -> MobileNetV3_order
      [] m.op = "SqueezeNet" -> <<"features", "classifier">>
      [] m.op = "MnasNet" -> <<"stem", "layers", "head", "classifier">>
      [] OTHER -> <<>>

Submodules(m) ==
    IF m.op = "Sequential" THEN m.layers
    ELSE [i \in 1..Len(SubmoduleNames(m)) |-> m[SubmoduleNames(m)[i]]]

\* every convolution a module declares, itself included
RECURSIVE Convs(_)
RECURSIVE ConvsOfAll(_)
Convs(m) == IF m.op = "Conv2d" THEN <<m>> ELSE ConvsOfAll(Submodules(m))
ConvsOfAll(ms) == IF ms = <<>> THEN <<>> ELSE Convs(Head(ms)) \o ConvsOfAll(Tail(ms))

\* a forward of one of the five architectures on a (B, 3, 224, 224) input
OnCanonicalForward ==
    /\ call.fn = "forward"
    /\ model.op \in FiveArchs
    /\ Defaults
    /\ call.args[2] = 3 /\ call.args[3] = 224 /\ call.args[4] = 224

\* C8: each of the five architectures is assembled, and at every step of its
\* forward the channel (or feature) count of the tensor reaching a convolution,
\* batch-norm or linear layer equals the count that layer declares, through
\* to a classifier of width num_classes; every grouped convolution has
\* in-channels divisible by its group count.
C8_ChannelsChainInAllFive ==
    /\ (made.fn \in FiveArchs /\ Defaults) =>
          /\ model.op = made.fn
          /\ \A i \in 1..Len(Convs(model)) :
                Convs(model)[i].cin % Convs(model)[i].groups = 0
    /\ OnCanonicalForward =>
          /\ \A i \in 1..Len(result.log) :
                result.log[i].op \in {"Conv2d", "BatchNorm2d", "Linear"}
                    => result.log[i].want = result.log[i].got
          /\ result.ok => result.shape[Len(result.shape)] = NumClassesArg

\* the part of C8 that the four architectures that can be built satisfy
ChannelsChainInBuilt ==
    /\ model.op \in FiveArchs =>
          \A i \in 1..Len(Convs(model)) :
              Convs(model)[i].cin % Convs(model)[i].groups = 0
    /\ OnCanonicalForward =>
          /\ \A i \in 1..Len(result.log) :
                result.log[i].op \in {"Conv2d", "BatchNorm2d", "Linear"}
                    => result.log[i].want = result.log[i].got
          /\ result.ok => result.shape[Len(result.shape)] = NumClassesArg

----------------------------------------------------------------------------
(* Properties of train.py *)

FiveSelectors ==
    {<<"v", "g", "g", "1", "9">>, <<"r", "e", "s", "n", "e", "t", "1", "8">>, <<"m", "o", "b", "i", "l", "e", "n", "e", "t", "v", "3">>,
     <<"s", "q", "u", "e", "e", "z", "e", "n", "e", "t">>, <<"m", "n", "a", "s", "n", "e", "t">>}

\* the architecture that carries the selector's name
ArchOf(sel) ==
    CASE sel = <<"v", "g", "g", "1", "9">> -> "VGG19"
      [] sel = <<"r", "e", "s", "n", "e", "t", "1", "8">> -> "ResNet18"
      [] sel = <<"m", "o", "b", "i", "l", "e", "n", "e", "t", "v", "3">> -> "MobileNetV3"
      [] sel = <<"s", "q", "u", "e", "e", "z", "e", "n", "e", "t">> -> "SqueezeNet"
      [] sel = <<"m", "n", "a", "s", "n", "e", "t">> -> "MnasNet"

\* --MODEL given, and the name it is compared by
HasSelector == pc # "start" /\ args.MODEL.t = "str"
Selector == lower(strip(args.MODEL.v))

ValidTrained == PyEq(args.TRAINED, <<"T", "r", "u", "e">>) \/ PyEq(args.TRAINED, <<"F", "a", "l", "s", "e">>)

DispatchPassed ==
    \/ pc \in {"validate", "load_model", "load_data", "train", "save_model", "save_data", "done"}
    \/ pc = "aborted" /\ exc.at \notin {"EPOCHS", "BATCH_SIZE", "create_dataloaders", "strip"}

\* C9: for each of the five selector names the dispatch constructs the
\* architecture of that name with num_classes = the number of class names, and
\* (when no checkpoint replaces it) that model is the one handed to training.
C9_DispatchBuildsNamedArch ==
    (HasSelector /\ Selector \in FiveSelectors /\ DispatchPassed) =>
        /\ made.fn = ArchOf(Selector)
        /\ made.args = <<class_names>>
        /\ pc = "validate" => model.op = ArchOf(Selector)
        /\ (call.fn = "engine.train" /\ trained = "False") => call.model.op = ArchOf(Selector)

\* C10: training, the checkpoint save and the results save are reached only
\* with a recognized model name and --TRAINED "True" or "False"; with an
\* unrecognized name or any other --TRAINED value (the omitted flag included)
\* the script never trains or saves and can only end aborted by an exception.
C10_TrainOnlyIfValid ==
    /\ done \cap {"train", "save_model", "save_data"} # {} =>
          (HasSelector /\ Selector \in FiveSelectors /\ ValidTrained)
    /\ (pc # "start" /\ ~(HasSelector /\ Selector \in FiveSelectors /\ ValidTrained)) =>
          /\ pc # "done"
          /\ pc \notin {"train", "save_model", "save_data"}
          /\ pc = "aborted" => exc.type # "none"

\* --MODEL resnet18 with --TRAINED omitted: the script was aborted at the
\* validation of the flag, with nothing trained or saved
C10_Witness ==
    /\ pc = "aborted"
    /\ HasSelector
    /\ Selector = <<"r", "e", "s", "n", "e", "t", "1", "8">>
    /\ args.TRAINED = PyBool(FALSE)
    /\ exc = [type |-> "Exception", at |-> "Wrong Argument --TRAINED"]
    /\ model.op = "ResNet18"
    /\ done = {}

\* a run that trained and saved
TrainedAndSaved == pc = "done" /\ done = {"train", "save_model", "save_data"}


----------------------------------------------------------------------------
(* Properties of the assembled schedules *)

\* the depthwise convolution of an InvertedResidualBlock: fifth layer from the end
DepthwiseOf(b) == b.block.layers[Len(b.block.layers) - 4]

\* in_channels, out_channels, stride and expansion factor an
\* InvertedResidualBlock was declared with, read off its layers
BlockIn(b) == b.block.layers[1].cin
BlockOut(b) == b.block.layers[Len(b.block.layers)].c
BlockStride(b) == DepthwiseOf(b).s
BlockExpansion(b) == DepthwiseOf(b).cin \div BlockIn(b)

MobileNetV3_channels == <<16, 24, 40, 80, 160, 320, 640, 1280>>
MobileNetV3_expansions == <<1, 2, 2, 1, 2, 1, 1, 1>>

\* stem, channel and expansion schedule and classifier of C11, without the strides
MobileNetV3_Layout ==
    /\ model.stem.stem.layers[1] = Conv2d(3, 16, 3, 2, 1, 1)
    /\ Len(model.bottlenecks.layers) = 8
    /\ \A i \in 1..8 :
          LET b == model.bottlenecks.layers[i]
          IN  /\ b.op = "InvertedResidualBlock"
              /\ BlockIn(b) = (IF i = 1 THEN 16 ELSE MobileNetV3_channels[i - 1])
              /\ BlockOut(b) = MobileNetV3_channels[i]
              /\ BlockExpansion(b) = MobileNetV3_expansions[i]
    /\ model.classifier.avgpool.op = "AdaptiveAvgPool2d"
    /\ model.classifier.conv1 = Conv2d(1280, 1280, 1, 1, 0, 1)
    /\ model.classifier.hswish1 = Act("Hswish")
    /\ model.classifier.dropout.op = "Dropout"
    /\ model.classifier.conv2 = Conv2d(1280, made.args[1], 1, 1, 0, 1)

StrideOneBlocks == {i \in 1..8 : BlockStride(model.bottlenecks.layers[i]) = 1}

\* C11 as stated: MobileNetV3 is a stride-2 3x3 stem (3 -> 16), 8
\* inverted-residual blocks with output channels 16..1280 and expansion
\* factors 1,2,2,1,2,1,1,1, strides all 2 except exactly two blocks at stride
\* 1, then the classifier.
C11_TwoStrideOneBlocks ==
    model.op = "MobileNetV3" =>
        /\ MobileNetV3_Layout
        /\ Cardinality(StrideOneBlocks) = 2
        /\ \A i \in (1..8) \ StrideOneBlocks : BlockStride(model.bottlenecks.layers[i]) = 2

\* C11 amended: the same stem, channel schedule, expansion factors and
\* classifier, with all eight blocks at stride 2 and none at stride 1.
C11_AllStrideTwo ==
    model.op = "MobileNetV3" =>
        /\ MobileNetV3_Layout
        /\ \A i \in 1..8 : BlockStride(model.bottlenecks.layers[i]) = 2

\* a MobileNetV3 has been built and run on a 224x224 batch, the map being 1x1
\* after the eight stride-2 blocks (42 channel checks passed up to the logits)
C11_Witness ==
    /\ model.op = "MobileNetV3"
    /\ Len(model.bottlenecks.layers) = 8
    /\ StrideOneBlocks = {}
    /\ call.fn = "forward"
    /\ call.args = <<2, 3, 224, 224>>
    /\ result.ok
    /\ result.shape = <<2, made.args[1]>>

\* the convolutions a forward applied, in order, as their declared in-channels
ConvsApplied(log) ==
    LET cs == SelectSeq(log, LAMBDA e : e.op = "Conv2d")
    IN  [i \in 1..Len(cs) |-> cs[i].want]

\* expansion_factor of the constructor call, and the hidden channel count
ExpansionArg == made.args[Len(made.args)]
HiddenDim == made.args[1] * ExpansionArg

\* the convolutions the block declares, in forward order
DeclaredConvs == Convs(model)

\* expand (1x1), depthwise (groups = hidden channels), project (1x1), in order
ExpandDepthwiseProject ==
    /\ ConvsApplied(result.log) = <<made.args[1], HiddenDim, HiddenDim>>
    /\ Len(DeclaredConvs) = 3
    /\ DeclaredConvs[1].k = 1 /\ DeclaredConvs[1].cout = HiddenDim
    /\ DeclaredConvs[2].groups = HiddenDim /\ DeclaredConvs[2].cout = HiddenDim
    /\ DeclaredConvs[3].k = 1 /\ DeclaredConvs[3].cout = made.args[2]

\* depthwise (groups = hidden channels) then project (1x1) only
DepthwiseProject ==
    /\ ConvsApplied(result.log) = <<HiddenDim, HiddenDim>>
    /\ Len(DeclaredConvs) = 2
    /\ DeclaredConvs[1].groups = HiddenDim /\ DeclaredConvs[1].cout = HiddenDim
    /\ DeclaredConvs[2].k = 1 /\ DeclaredConvs[2].cout = made.args[2]

\* C12 as stated: in both inverted-residual blocks the 1x1 expand stage is
\* present exactly when expansion_factor != 1: with factor 1 the block applies
\* depthwise then project only, otherwise expand, depthwise, project, the
\* depthwise group count being in_channels * expansion_factor.
C12_ExpandIffFactorNotOne ==
    (OnInverted /\ result.ok) =>
        IF ExpansionArg # 1 THEN ExpandDepthwiseProject ELSE DepthwiseProject

\* C12 amended: InvertedResidualBlock has the expand stage exactly when
\* expansion_factor != 1; InvertedResidual always has it (with factor 1 it is a
\* 1x1 convolution from in_channels to in_channels); in both the order is
\* expand, depthwise, project and the depthwise group count is the hidden
\* channel count.
C12_ExpandAlwaysInMnasBlock ==
    (OnInverted /\ result.ok) =>
        IF ExpansionArg # 1 \/ made.fn = "InvertedResidual"
        THEN ExpandDepthwiseProject
        ELSE DepthwiseProject

\* InvertedResidual(16, 24, 3, 2, 1) has applied a 16 -> 16 expand convolution
\* before its depthwise and project convolutions
C12_Witness ==
    /\ OnInverted
    /\ made = [fn |-> "InvertedResidual", args |-> <<16, 24, 3, 2, 1>>]
    /\ result.ok
    /\ ConvsApplied(result.log) = <<16, 16, 16>>
    /\ Len(DeclaredConvs) = 3

\* a forward of a whole ResNet18 on a 3-channel batch
OnResNetForward ==
    /\ call.fn = "forward"
    /\ model.op = "ResNet18"
    /\ call.args[2] = 3

\* every residual add of the forward had operands of one shape
AddsMatched ==
    \A i \in 1..Len(result.log) :
        result.log[i].op = "add" => result.log[i].want = result.log[i].got

\* the batch norms of a model in training mode are given a single value per
\* channel: batch of one whose map is 1x1 at the last group (both sides <= 32)
SingleValuePerChannel ==
    /\ call.training
    /\ call.args[1] = 1
    /\ call.args[3] <= 32
    /\ call.args[4] <= 32

====
